---- MODULE Spec2Model ----
(***************************************************************************)
(* Model of src/app.py: the WhatsApp cleaning rota (members, tasks,        *)
(* assignments, the webhook command interpreter, the notification          *)
(* endpoints and the scheduled due-task check).                            *)
(*                                                                         *)
(* Strings the code inspects character by character (phones, task names,   *)
(* message bodies, sender addresses) are sequences of one-character        *)
(* strings.  Timestamps are clock ticks, dates are day numbers.  A UUID is *)
(* the pair of the kind of record it was drawn for and a counter of that   *)
(* kind, so a generated id never repeats.  Request bodies                  *)
(* are JSON objects with string values: a record whose DOMAIN is the set   *)
(* of keys that are present.  The creation stamps date_added and           *)
(* assigned_date, which the code writes once and never reads, are left out *)
(* of the records.                                                         *)
(***************************************************************************)
EXTENDS Integers, Sequences, FiniteSets, TLC

VARIABLES
    data,        \* the global dataset: members, tasks, assignments
    disk,        \* content of DATA_FILE: a snapshot of data, FileAbsent or
                 \* Truncated
    client,      \* TRUE iff the Twilio client was initialised
    now,         \* the clock read by datetime.now(), in ticks
    next_uuid,   \* source of uuid.uuid4(): the next counter of each kind
    request,     \* the request being served, Idle between requests
    response,    \* what its handler returns
    sent,        \* the sends its handler attempted, in order
    disk_faults, \* the number of times writing DATA_FILE may still raise
    before,      \* history: data and disk when the request arrived
    webhook_done, \* history: ids of the stored assignments that a webhook
                 \* 'done' command completed
    threads,     \* the requests that are served step by step, in threads
                 \* that interleave: where each one is, and its locals
    saved        \* history: how the save_data() call of the request being
                 \* served ended, "none" when it made no such call

vars == <<data, disk, client, now, next_uuid, request, response, sent,
          disk_faults, before, webhook_done, threads, saved>>

---------------------------------------------------------------------------
(* Bounds of the model *)

MaxUuids == 4
MaxMemberUuids == 2
MaxTaskUuids == 1
MaxAssignmentUuids == 2
MaxClock == 1
MaxSendFailures == 1
MaxThreads == 2
MaxDiskFaults == 1

(* Program constants *)

TicksPerDay == 1
DefaultDueDays == 7
NoneVal == -1
FileAbsent == [absent |-> TRUE]
Truncated == [truncated |-> TRUE]

---------------------------------------------------------------------------
(* Strings *)

S_plus == <<"+">>
S_whatsapp == <<"w","h","a","t","s","a","p","p",":">>
S_tasks == <<"t","a","s","k","s">>
S_help == <<"h","e","l","p">>
S_done_sp == <<"d","o","n","e"," ">>
S_cleaning == <<" ","c","l","e","a","n","i","n","g">>
S_Kitchen_cleaning == <<"K","i","t","c","h","e","n">> \o S_cleaning
S_kitchen_cleaning == <<"k","i","t","c","h","e","n">> \o S_cleaning
S_Bathroom_cleaning == <<"B","a","t","h","r","o","o","m">> \o S_cleaning
S_phone1 == <<"+","1">>
S_phone2 == <<"+","2">>

UpperChars == <<"A","B","C","D","E","F","G","H","I","J","K","L","M",
                "N","O","P","Q","R","S","T","U","V","W","X","Y","Z">>
LowerChars == <<"a","b","c","d","e","f","g","h","i","j","k","l","m",
                "n","o","p","q","r","s","t","u","v","w","x","y","z">>

SetMin(S) == CHOOSE x \in S : \A y \in S : x <= y
SetMax(S) == CHOOSE x \in S : \A y \in S : x >= y

IsSpace(c) == c \in {" ", "\t", "\n", "\r"}

lower_char(c) ==
    IF \E i \in 1..26 : UpperChars[i] = c
    THEN LowerChars[CHOOSE i \in 1..26 : UpperChars[i] = c]
    ELSE c

\* str.lower()
lower(s) == [i \in 1..Len(s) |-> lower_char(s[i])]

\* str.strip()
strip(s) ==
    LET keep == {i \in 1..Len(s) : ~IsSpace(s[i])}
    IN IF keep = {} THEN <<>> ELSE SubSeq(s, SetMin(keep), SetMax(keep))

\* str.startswith(prefix)
startswith(s, prefix) ==
    Len(s) >= Len(prefix) /\ SubSeq(s, 1, Len(prefix)) = prefix

\* s[n:]
drop(s, n) == SubSeq(s, n + 1, Len(s))

---------------------------------------------------------------------------
(* Time *)

\* datetime.strftime("%Y-%m-%d %H:%M:%S"): the clock at tick resolution
timestamp(t) == t

\* datetime.strftime("%Y-%m-%d"): the clock truncated to the day
date_str(t) == t \div TicksPerDay

\* mutant: the timedelta is forgotten
date_after_no_delta(t, n) == date_str(t)

\* (datetime.now() + timedelta(days = n)).strftime("%Y-%m-%d")
date_after(t, n) == date_str(t + n * TicksPerDay)

---------------------------------------------------------------------------
(* Sequence helpers *)

Range(s) == {s[i] : i \in 1..Len(s)}

\* list.pop(i)
pop(s, i) == SubSeq(s, 1, i - 1) \o SubSeq(s, i + 1, Len(s))

\* index of the first element satisfying p, 0 when there is none:
\* next((x for x in s if p(x)), None) and the "for ...: if ...: break" loops
first_index(s, p(_)) ==
    LET hits == {i \in 1..Len(s) : p(s[i])}
    IN IF hits = {} THEN 0 ELSE SetMin(hits)

---------------------------------------------------------------------------
(* The dataset *)

\* load_data(), branch "no file exists": the default dataset
default_data ==
    [members |-> <<>>,
     tasks |-> << [id |-> <<"task", 1>>, name |-> S_Kitchen_cleaning,
                   description |-> "Clean kitchen surfaces and floor",
                   frequency |-> "weekly"],
                  [id |-> <<"task", 2>>, name |-> S_Bathroom_cleaning,
                   description |-> "Clean bathroom, including shower, toilet and sink",
                   frequency |-> "weekly"] >>,
     assignments |-> <<>>]

\* mutant: an id generator that returns the same id again
uuid4_reused(kind) == <<kind, 1>>

\* str(uuid.uuid4()), drawn for a record of this kind
uuid4(kind) == <<kind, next_uuid[kind]>>

\* mutant: an id that is not found is taken for the first member
member_index_or_first(d, member_id) ==
    IF first_index(d.members, LAMBDA m : m.id = member_id) # 0
    THEN first_index(d.members, LAMBDA m : m.id = member_id)
    ELSE IF d.members = <<>> THEN 0 ELSE 1

\* next((m for m in data["members"] if m["id"] == member_id), None), as index
member_index(d, member_id) ==
    first_index(d.members, LAMBDA m : m.id = member_id)

\* next((t for t in data["tasks"] if t["id"] == task_id), None), as index
task_index(d, task_id) ==
    first_index(d.tasks, LAMBDA t : t.id = task_id)

\* index of the assignment with this id
assignment_index(d, assignment_id) ==
    first_index(d.assignments, LAMBDA a : a.id = assignment_id)

\* an outcome of a handler: the dataset it leaves, what it returns, whether
\* it called save_data, the kinds of uuid it drew, the sends it attempted
Outcome(d, resp, saves, uuids, sends) ==
    [data |-> d, response |-> resp, save |-> saves, uuids |-> uuids,
     sent |-> sends]

\* mutant: the dataset is saved on the error paths too
Error_saved(d, status, msg) ==
    Outcome(d, [status |-> status, error |-> msg], TRUE, {}, <<>>)

Error(d, status, msg) ==
    Outcome(d, [status |-> status, error |-> msg], FALSE, {}, <<>>)

---------------------------------------------------------------------------
(* Members *)

\* the phone format check of add_member
phone_valid(phone) == startswith(phone, S_plus)

add_member(d, body) ==
    IF ~({"name", "phone"} \subseteq DOMAIN body)
    THEN Error(d, 400, "Name and phone number required")
    ELSE IF ~phone_valid(body.phone)
    THEN Error(d, 400,
               "Phone number must be in international format (starting with +)")
    ELSE LET member == [id |-> uuid4("member"), name |-> body.name,
                        phone |-> body.phone]
         IN Outcome([d EXCEPT !.members = Append(@, member)],
                    [status |-> 201, member |-> member], TRUE, {"member"}, <<>>)

\* mutant: the filter condition inverted
without_member_inverted(assignments, member_id) ==
    SelectSeq(assignments, LAMBDA a : a.member_id = member_id)

\* the cascade of delete_member
without_member(assignments, member_id) ==
    SelectSeq(assignments, LAMBDA a : a.member_id # member_id)

delete_member(d, member_id) ==
    LET i == member_index(d, member_id)
    IN IF i = 0 THEN Error(d, 404, "Member not found")
       ELSE Outcome([d EXCEPT !.members = pop(@, i),
                              !.assignments = without_member(@, member_id)],
                    [status |-> 200, removed |-> d.members[i]],
                    TRUE, {}, <<>>)

---------------------------------------------------------------------------
(* Tasks *)

valid_frequencies == {"daily", "weekly", "biweekly", "monthly"}

\* dict.get(key, default)
get(body, key, default) == IF key \in DOMAIN body THEN body[key] ELSE default

add_task(d, body) ==
    IF "name" \notin DOMAIN body
    THEN Error(d, 400, "Task name required")
    ELSE LET description == get(body, "description", "")
             frequency == get(body, "frequency", "weekly")
         IN IF frequency \notin valid_frequencies
            THEN Error(d, 400, "Frequency must be one of: daily, weekly, biweekly, monthly")
            ELSE LET task == [id |-> uuid4("task"), name |-> body.name,
                              description |-> description,
                              frequency |-> frequency]
                 IN Outcome([d EXCEPT !.tasks = Append(@, task)],
                            [status |-> 201, task |-> task], TRUE, {"task"}, <<>>)

\* mutant: the cascade forgotten
without_task_forgotten(assignments, task_id) == assignments

\* the cascade of delete_task
without_task(assignments, task_id) ==
    SelectSeq(assignments, LAMBDA a : a.task_id # task_id)

delete_task(d, task_id) ==
    LET i == task_index(d, task_id)
    IN IF i = 0 THEN Error(d, 404, "Task not found")
       ELSE Outcome([d EXCEPT !.tasks = pop(@, i),
                              !.assignments = without_task(@, task_id)],
                    [status |-> 200, removed |-> d.tasks[i]],
                    TRUE, {}, <<>>)

---------------------------------------------------------------------------
(* Assignments *)

\* mutant: the task id compared with the member id of the assignment
assignment_exists_wrong_key(d, member_id, task_id) ==
    \E a \in Range(d.assignments) :
        a.member_id = member_id /\ a.member_id = task_id

\* mutant: completed assignments skipped
assignment_exists_active_only(d, member_id, task_id) ==
    \E a \in Range(d.assignments) :
        a.member_id = member_id /\ a.task_id = task_id /\ ~a.completed

\* the duplicate check of create_assignment
assignment_exists(d, member_id, task_id) ==
    \E a \in Range(d.assignments) :
        a.member_id = member_id /\ a.task_id = task_id

\* t is the clock read for the default due date
\* the record that create_assignment builds
new_assignment(body, t) ==
    [id |-> uuid4("assignment"),
     member_id |-> body.member_id,
     task_id |-> body.task_id,
     due_date |-> get(body, "due_date", date_after(t, DefaultDueDays)),
     completed |-> FALSE,
     completion_date |-> NoneVal]

\* mutant: the member and the task are looked up again before the append
append_assignment_member_checked(d, body, member, task, t) ==
    IF member_index(d, body.member_id) = 0
    THEN Error(d, 404, "Member not found")
    ELSE IF task_index(d, body.task_id) = 0
    THEN Error(d, 404, "Task not found")
    ELSE Outcome([d EXCEPT !.assignments = Append(@, new_assignment(body, t))],
                 [status |-> 201, assignment |-> new_assignment(body, t),
                  member_name |-> member.name, task_name |-> task.name],
                 TRUE, {"assignment"}, <<>>)

\* mutant: the duplicate check is made again, together with the append
append_assignment_rechecked(d, body, member, task, t) ==
    IF assignment_exists(d, body.member_id, body.task_id)
    THEN Error(d, 409, "This assignment already exists")
    ELSE Outcome([d EXCEPT !.assignments = Append(@, new_assignment(body, t))],
                 [status |-> 201, assignment |-> new_assignment(body, t),
                  member_name |-> member.name, task_name |-> task.name],
                 TRUE, {"assignment"}, <<>>)

\* the part of create_assignment after its checks: the append, the save and
\* the response; member and task are the records its checks found
append_assignment(d, body, member, task, t) ==
    Outcome([d EXCEPT !.assignments = Append(@, new_assignment(body, t))],
            [status |-> 201, assignment |-> new_assignment(body, t),
             member_name |-> member.name, task_name |-> task.name],
            TRUE, {"assignment"}, <<>>)

create_assignment(d, body, t) ==
    IF ~({"member_id", "task_id"} \subseteq DOMAIN body)
    THEN Error(d, 400, "Member ID and Task ID required")
    ELSE IF member_index(d, body.member_id) = 0
    THEN Error(d, 404, "Member not found")
    ELSE IF task_index(d, body.task_id) = 0
    THEN Error(d, 404, "Task not found")
    ELSE IF assignment_exists(d, body.member_id, body.task_id)
    THEN Error(d, 409, "This assignment already exists")
    ELSE append_assignment(d, body,
                           d.members[member_index(d, body.member_id)],
                           d.tasks[task_index(d, body.task_id)], t)

\* mutant: the completion date not stamped
mark_completed_no_stamp(a, t) == [a EXCEPT !.completed = TRUE]

\* mutant: an assignment that is already completed left as it is
mark_completed_once(a, t) ==
    IF a.completed THEN a
    ELSE [a EXCEPT !.completed = TRUE, !.completion_date = timestamp(t)]

\* assignment["completed"] = True; assignment["completion_date"] = now
mark_completed(a, t) ==
    [a EXCEPT !.completed = TRUE, !.completion_date = timestamp(t)]

complete_assignment(d, assignment_id, t) ==
    LET i == assignment_index(d, assignment_id)
    IN IF i = 0 THEN Error(d, 404, "Assignment not found")
       ELSE LET assignment == mark_completed(d.assignments[i], t)
            IN Outcome([d EXCEPT !.assignments[i] = assignment],
                       [status |-> 200, assignment |-> assignment],
                       TRUE, {}, <<>>)

---------------------------------------------------------------------------
(* Sending: client.messages.create(body, from_, to) *)

\* the indices of s that satisfy p, in increasing order
indices(s, p(_)) == SelectSeq([i \in 1..Len(s) |-> i], LAMBDA i : p(s[i]))

\* one call of client.messages.create; ok = FALSE when it raises
Send(phone, body, ok) == [to |-> S_whatsapp \o phone, body |-> body, ok |-> ok]

\* the assignments a notification loop sends for: selected by want, and
\* whose member and task are both found
sendable(d, want(_)) ==
    indices(d.assignments,
            LAMBDA a : /\ want(a)
                       /\ member_index(d, a.member_id) # 0
                       /\ task_index(d, a.task_id) # 0)

member_of(d, a) == d.members[member_index(d, a.member_id)]
task_of(d, a) == d.tasks[task_index(d, a.task_id)]

---------------------------------------------------------------------------
(* Notification endpoints *)

\* the loop of notify_all; fail: the indices of the assignments whose send
\* raises
reminders(d, fail) ==
         LET idx == sendable(d, LAMBDA a : ~a.completed)
             attempt(i) ==
                 LET a == d.assignments[i]
                 IN Send(member_of(d, a).phone,
                         [kind |-> "reminder",
                          name |-> member_of(d, a).name,
                          task |-> task_of(d, a).name,
                          details |-> task_of(d, a).description,
                          due_date |-> a.due_date],
                         i \notin fail)
             good == SelectSeq(idx, LAMBDA i : i \notin fail)
         IN Outcome(d,
                    [status |-> 200,
                     notifications_sent |->
                         [k \in 1..Len(good) |->
                             [member |-> member_of(d, d.assignments[good[k]]).name,
                              task |-> task_of(d, d.assignments[good[k]]).name,
                              message_sid |-> "sid"]]],
                    FALSE, {},
                    [k \in 1..Len(idx) |-> attempt(idx[k])])

\* mutant: a send that raises ends the loop and the request
notify_all_stops_at_failure(d, fail) ==
    IF ~client THEN Error(d, 500, "Twilio client not configured")
    ELSE LET out == reminders(d, fail)
             k == first_index(out.sent, LAMBDA x : ~x.ok)
         IN IF k = 0 THEN out
            ELSE [out EXCEPT !.sent = SubSeq(@, 1, k),
                             !.response = [status |-> 500,
                                           error |-> "send failed"]]

notify_all(d, fail) ==
    IF ~client THEN Error(d, 500, "Twilio client not configured")
    ELSE reminders(d, fail)

\* mutant: the assignments of every member are taken
active_assignments_any_member(d, member_id) ==
    SelectSeq(d.assignments, LAMBDA a : ~a.completed)

\* mutant: the completed assignments are kept in the list
active_assignments_all(d, member_id) ==
    SelectSeq(d.assignments, LAMBDA a : a.member_id = member_id)

\* [a for a in data["assignments"] if a["member_id"] == member_id
\*                                  and not a["completed"]]
active_assignments(d, member_id) ==
    SelectSeq(d.assignments,
              LAMBDA a : a.member_id = member_id /\ ~a.completed)

\* mutant: the last active assignment is left out of the message
task_lines_short(d, active, with_description) ==
    LET idx == SelectSeq([i \in 1..(Len(active) - 1) |-> i],
                         LAMBDA i : task_index(d, active[i].task_id) # 0)
    IN [k \in 1..Len(idx) |->
           LET a == active[idx[k]]
           IN [idx |-> idx[k],
               name |-> task_of(d, a).name,
               due_date |-> a.due_date,
               description |->
                   IF with_description THEN task_of(d, a).description ELSE ""]]

\* the numbered lines built by "for idx, assignment in enumerate(active, 1)":
\* a line for each active assignment whose task is found, numbered by the
\* position of the assignment in active
task_lines(d, active, with_description) ==
    LET idx == SelectSeq([i \in 1..Len(active) |-> i],
                         LAMBDA i : task_index(d, active[i].task_id) # 0)
    IN [k \in 1..Len(idx) |->
           LET a == active[idx[k]]
           IN [idx |-> idx[k],
               name |-> task_of(d, a).name,
               due_date |-> a.due_date,
               description |->
                   IF with_description THEN task_of(d, a).description ELSE ""]]

\* ok = FALSE when the send raises
notify_member(d, member_id, ok) ==
    IF ~client THEN Error(d, 500, "Twilio client not configured")
    ELSE IF member_index(d, member_id) = 0
    THEN Error(d, 404, "Member not found")
    ELSE LET member == d.members[member_index(d, member_id)]
             active == active_assignments(d, member_id)
         IN IF active = <<>>
            THEN Outcome(d, [status |-> 200,
                             message |-> "No active assignments found for this member"],
                         FALSE, {}, <<>>)
            ELSE LET attempt ==
                         Send(member.phone,
                              [kind |-> "task_summary",
                               name |-> member.name,
                               lines |-> task_lines(d, active, TRUE)],
                              ok)
                 IN IF ok
                    THEN Outcome(d, [status |-> 200, message_sid |-> "sid",
                                     member |-> member.name,
                                     tasks_count |-> Len(active)],
                                 FALSE, {}, <<attempt>>)
                    ELSE Outcome(d, [status |-> 500, error |-> "send failed"],
                                 FALSE, {}, <<attempt>>)

---------------------------------------------------------------------------
(* Scheduled due-task check *)

\* the scan of check_due_tasks: t1 is the clock read for current_date, t2
\* the one for tomorrow
due_reminders(d, t1, t2, fail) ==
         LET current_date == date_str(t1)
             tomorrow == date_after(t2, 1)
             idx == sendable(d, LAMBDA a :
                        /\ ~a.completed
                        /\ (a.due_date = current_date \/ a.due_date = tomorrow))
             attempt(i) ==
                 LET a == d.assignments[i]
                 IN Send(member_of(d, a).phone,
                         [kind |-> "due_reminder",
                          name |-> member_of(d, a).name,
                          task |-> task_of(d, a).name,
                          urgency |-> IF a.due_date = current_date
                                      THEN "due today" ELSE "due tomorrow",
                          details |-> task_of(d, a).description],
                         i \notin fail)
         IN Outcome(d, [job |-> "check_due_tasks", skipped |-> FALSE],
                    FALSE, {},
                    [k \in 1..Len(idx) |-> attempt(idx[k])])

\* mutant: the scan runs without looking at client
check_due_tasks_unguarded(d, t1, t2, fail) == due_reminders(d, t1, t2, fail)

check_due_tasks(d, t1, t2, fail) ==
    IF ~client
    THEN Outcome(d, [job |-> "check_due_tasks", skipped |-> TRUE],
                 FALSE, {}, <<>>)
    ELSE due_reminders(d, t1, t2, fail)

---------------------------------------------------------------------------
(* Webhook: the command interpreter *)

\* sender with the "whatsapp:" prefix stripped
bare_sender(from) ==
    IF startswith(from, S_whatsapp) THEN drop(from, 9) ELSE from

\* mutant: an unknown sender is taken for the first member
sender_index_first(d, sender) ==
    IF first_index(d.members, LAMBDA m : m.phone = sender) # 0
    THEN first_index(d.members, LAMBDA m : m.phone = sender)
    ELSE IF d.members = <<>> THEN 0 ELSE 1

\* next((m for m in data["members"] if m["phone"] == sender), None), as index
sender_index(d, sender) ==
    first_index(d.members, LAMBDA m : m.phone = sender)

\* mutant: the webhook returns without having called save_data
create_twilio_response_no_save(d, message, saves) ==
    Outcome(d, [status |-> 200, message |-> message], FALSE, {}, <<>>)

\* create_twilio_response(message)
create_twilio_response(d, message, saves) ==
    Outcome(d, [status |-> 200, message |-> message], saves, {}, <<>>)

\* mutant: the scan does not skip the completed assignments
done_index_completed_too(d, member_id, task_name) ==
    first_index(d.assignments,
                LAMBDA a : /\ a.member_id = member_id
                           /\ task_index(d, a.task_id) # 0
                           /\ lower(task_of(d, a).name) = task_name)

\* mutant: the scan does not look at the owner of the assignment
done_index_any_member(d, member_id, task_name) ==
    first_index(d.assignments,
                LAMBDA a : /\ ~a.completed
                           /\ task_index(d, a.task_id) # 0
                           /\ lower(task_of(d, a).name) = task_name)

\* the scan of the 'done' command: index of the first assignment of the
\* member that is not completed and whose task name, lower-cased, is
\* task_name; 0 when there is none
done_index(d, member_id, task_name) ==
    first_index(d.assignments,
                LAMBDA a : /\ a.member_id = member_id
                           /\ ~a.completed
                           /\ task_index(d, a.task_id) # 0
                           /\ lower(task_of(d, a).name) = task_name)

webhook(d, body, from, t) ==
    LET incoming_msg == lower(strip(body))
        mi == sender_index(d, bare_sender(from))
    IN IF mi = 0
       THEN create_twilio_response(d, [kind |-> "not_registered"], FALSE)
       ELSE LET member == d.members[mi]
            IN IF incoming_msg = S_tasks
               THEN LET active == active_assignments(d, member.id)
                    IN IF active = <<>>
                       THEN create_twilio_response(d,
                                [kind |-> "no_active_tasks",
                                 name |-> member.name], FALSE)
                       ELSE create_twilio_response(d,
                                [kind |-> "task_list", name |-> member.name,
                                 lines |-> task_lines(d, active, FALSE)],
                                FALSE)
               ELSE IF startswith(incoming_msg, S_done_sp)
               THEN LET task_name == lower(strip(drop(incoming_msg, 5)))
                        i == done_index(d, member.id, task_name)
                    IN IF i # 0
                       THEN create_twilio_response(
                                [d EXCEPT !.assignments[i] =
                                              mark_completed(@, t)],
                                [kind |-> "done_ok", name |-> member.name,
                                 task_name |-> task_name], TRUE)
                       ELSE create_twilio_response(d,
                                [kind |-> "done_not_found",
                                 name |-> member.name,
                                 task_name |-> task_name], FALSE)
               ELSE IF incoming_msg = S_help
               THEN create_twilio_response(d,
                        [kind |-> "help", name |-> member.name], FALSE)
               ELSE create_twilio_response(d,
                        [kind |-> "unknown", name |-> member.name], FALSE)

---------------------------------------------------------------------------
(* Inputs *)

\* an id that uuid4 never returns: any string that is no stored id
NoSuchId == <<"none", 0>>

\* the number of uuids drawn so far
drawn == (next_uuid.member - 1) + (next_uuid.task - 3)
             + (next_uuid.assignment - 1)

\* the last counter of each kind that the model draws
LastUuid ==
    [member |-> MaxMemberUuids, task |-> 2 + MaxTaskUuids,
     assignment |-> MaxAssignmentUuids]

MemberIds(d) == { m.id : m \in Range(d.members) } \cup {NoSuchId}
TaskIds(d) == { k.id : k \in Range(d.tasks) } \cup {NoSuchId}
AssignmentIds(d) == { a.id : a \in Range(d.assignments) } \cup {NoSuchId}

MemberBodies ==
    { [name |-> "Ana", phone |-> S_phone1],
      [name |-> "", phone |-> S_phone2],
      [name |-> "Ana", phone |-> <<"1","+">>],
      [name |-> "Ana"] }

TaskBodies ==
    { [name |-> S_kitchen_cleaning],
      [name |-> <<"M","o","p">>, frequency |-> "yearly"],
      [description |-> "no name"] }

AssignmentBodies(d) ==
    { [member_id |-> m.id, task_id |-> k] :
          m \in Range(d.members), k \in TaskIds(d) }
    \cup { [member_id |-> m.id, task_id |-> k.id, due_date |-> 1] :
               m \in Range(d.members), k \in Range(d.tasks) }
    \cup { [member_id |-> NoSuchId, task_id |-> <<"task", 1>>],
           [member_id |-> NoSuchId] }

Senders ==
    { S_whatsapp \o S_phone1, S_phone2, S_whatsapp \o <<"+","9">> }

MessageBodies ==
    { <<" ","T","a","s","k","s","\n">>,
      <<"D","o","n","e"," "," ">> \o S_Kitchen_cleaning \o <<" ">>,
      S_done_sp }

\* the sets of assignment indices whose send may raise in one run
FailSets(d) ==
    { F \in SUBSET (1..Len(d.assignments)) : Cardinality(F) <= MaxSendFailures }

---------------------------------------------------------------------------
(* State machine *)

\* the ways a call of save_data() ends: the dataset is written; open() raises
\* and the file is left as it was; open(DATA_FILE, 'w') has emptied the file
\* and json.dump raises before the dataset is written out
SaveOutcomes == {"saved", "not opened", "not written"}

\* mutant: a save that raised is made again until the dataset is written
save_data_retried(d, how) ==
    /\ how = "saved" \/ disk_faults > 0
    /\ disk_faults' = IF how = "saved" THEN disk_faults ELSE disk_faults - 1
    /\ disk' = d
    /\ saved' = how

\* save_data(): whatever is raised is logged and swallowed
save_data(d, how) ==
    /\ how = "saved" \/ disk_faults > 0
    /\ disk_faults' = IF how = "saved" THEN disk_faults ELSE disk_faults - 1
    /\ disk' = CASE how = "saved" -> d
                 [] how = "not opened" -> disk
                 [] how = "not written" -> Truncated
    /\ saved' = how

\* ids of the assignments that out completed and were not completed before
newly_completed(d, out) ==
    { a.id : a \in { b \in Range(out.data.assignments) : b.completed } }
    \ { a.id : a \in { b \in Range(d.assignments) : b.completed } }

\* the threads of the server, and a thread that serves no request
Threads == 1..MaxThreads
IdleThread == [pc |-> "idle"]

\* no request is being served
Idle == [op |-> "idle"]
NoResponse == [status |-> 0]

\* a handler serves request req as a whole, reading the clock at t, with
\* outcome out
Handle(req, t, out) ==
    /\ request = Idle
    /\ \A kind \in out.uuids :
           next_uuid[kind] <= LastUuid[kind] /\ drawn < MaxUuids
    /\ request' = req
    /\ response' = out.response
    /\ data' = out.data
    /\ sent' = out.sent
    /\ now' = t
    /\ next_uuid' = [kind \in DOMAIN next_uuid |->
                         IF kind \in out.uuids THEN next_uuid[kind] + 1
                         ELSE next_uuid[kind]]
    /\ client' = client
    /\ IF out.save
       THEN \E how \in SaveOutcomes : save_data(out.data, how)
       ELSE UNCHANGED <<disk, disk_faults>> /\ saved' = "none"
    /\ before' = [data |-> data, disk |-> disk]
    /\ webhook_done' =
           (webhook_done \cup
               (IF req.op = "webhook" THEN newly_completed(data, out) ELSE {}))
           \cap { a.id : a \in Range(out.data.assignments) }
    /\ threads' = threads

\* load_data() at startup with no DATA_FILE, on a file system where faults
\* writes may raise, the first save included
Startup(faults) ==
    /\ data = default_data
    /\ \/ disk = default_data /\ disk_faults = faults
       \/ /\ faults > 0
          /\ disk \in {FileAbsent, Truncated}
          /\ disk_faults = faults - 1
    /\ now = 0
    /\ next_uuid = [member |-> 1, task |-> 3, assignment |-> 1]
    /\ request = Idle
    /\ response = NoResponse
    /\ sent = <<>>
    /\ before = [data |-> data, disk |-> disk]
    /\ webhook_done = {}
    /\ threads = [th \in Threads |-> IdleThread]
    /\ saved = "none"

\* startup with the Twilio credentials in the environment, on a file
\* system whose writes succeed
Init == client = TRUE /\ Startup(0)

\* time passes
Tick ==
    /\ request = Idle
    /\ now < MaxClock
    /\ now' = now + 1
    /\ UNCHANGED <<data, disk, client, next_uuid, request, response, sent,
                   disk_faults, before, webhook_done, threads, saved>>

\* the response has been delivered; the server waits for the next request
Return ==
    /\ request # Idle
    /\ request' = Idle
    /\ response' = NoResponse
    /\ sent' = <<>>
    /\ before' = [data |-> data, disk |-> disk]
    /\ saved' = "none"
    /\ UNCHANGED <<data, disk, client, now, next_uuid, disk_faults,
                   webhook_done, threads>>

AddMember ==
    \E body \in MemberBodies :
        Handle([op |-> "add_member", body |-> body], now,
               add_member(data, body))

DeleteMember ==
    \E member_id \in MemberIds(data) :
        Handle([op |-> "delete_member", member_id |-> member_id], now,
               delete_member(data, member_id))

AddTask ==
    \E body \in TaskBodies :
        Handle([op |-> "add_task", body |-> body], now,
               add_task(data, body))

DeleteTask ==
    \E task_id \in TaskIds(data) :
        Handle([op |-> "delete_task", task_id |-> task_id], now,
               delete_task(data, task_id))

CreateAssignment ==
    \E body \in AssignmentBodies(data) :
        Handle([op |-> "create_assignment", body |-> body], now,
               create_assignment(data, body, now))

CompleteAssignment ==
    \E assignment_id \in AssignmentIds(data) :
        Handle([op |-> "complete_assignment",
                assignment_id |-> assignment_id], now,
               complete_assignment(data, assignment_id, now))

NotifyAll ==
    \E fail \in FailSets(data) :
        Handle([op |-> "notify_all"], now, notify_all(data, fail))

NotifyMember ==
    \E member_id \in MemberIds(data), ok \in BOOLEAN :
        Handle([op |-> "notify_member", member_id |-> member_id], now,
               notify_member(data, member_id, ok))

Webhook ==
    \E body \in MessageBodies, from \in Senders :
        Handle([op |-> "webhook", Body |-> body, From |-> from], now,
               webhook(data, body, from, now))

\* the job is started at 08:00 (interval of 24 hours from
\* '2023-01-01 08:00:00'), so the two clock reads of one run, now and t2,
\* fall on the same day
CheckDueTasks ==
    \E t2 \in { t \in now..MaxClock : date_str(t) = date_str(now) },
       fail \in FailSets(data) :
        Handle([op |-> "check_due_tasks"], t2,
               check_due_tasks(data, now, t2, fail))

Next ==
    \/ AddMember
    \/ DeleteMember
    \/ AddTask
    \/ DeleteTask
    \/ CreateAssignment
    \/ CompleteAssignment
    \/ NotifyAll
    \/ NotifyMember
    \/ Webhook
    \/ CheckDueTasks
    \/ Tick
    \/ Return

Spec == Init /\ [][Next]_vars

\* the requests that call save_data()
NextSaving ==
    \/ AddMember
    \/ DeleteMember
    \/ AddTask
    \/ DeleteTask
    \/ CreateAssignment
    \/ CompleteAssignment
    \/ Webhook
    \/ Return

\* the saving requests of the same program on a file system whose writes
\* may fail
SpecDiskFaulty ==
    (client = TRUE /\ Startup(MaxDiskFaults)) /\ [][NextSaving]_vars

\* the same program started without the Twilio credentials
SpecNoClient ==
    (client = FALSE /\ Startup(0)) /\ [][Next]_vars

\* the same program started with or without the Twilio credentials
SpecAnyClient ==
    (client \in BOOLEAN /\ Startup(0)) /\ [][Next]_vars

---------------------------------------------------------------------------
(* Requests served concurrently: the server runs each request in a thread
   of its own and the handlers take no lock, so the statements of two
   handlers interleave *)

\* the appends that the threads past their checks have still to make
pending == Cardinality({ th \in Threads : threads[th].pc = "append" })

\* create_assignment in thread th, up to the end of its checks: the body is
\* read and checked against the dataset of this moment; member and task
\* are the records that the checks found
CreateAssignmentCheck(th) ==
    /\ threads[th].pc = "idle"
    /\ \E body \in AssignmentBodies(data) :
           LET out == create_assignment(data, body, now)
               racing == { o \in Threads \ {th} :
                               /\ threads[o].pc = "append"
                               /\ threads[o].body.member_id = body.member_id
                               /\ threads[o].body.task_id = body.task_id }
           IN IF out.response.status # 201
              THEN threads' =
                       [threads EXCEPT ![th] =
                            [pc |-> "done", op |-> "create_assignment",
                             body |-> body, response |-> out.response,
                             raced |-> FALSE]]
              ELSE /\ next_uuid.assignment + pending <= LastUuid.assignment
                   /\ drawn + pending < MaxUuids
                   /\ threads' =
                          [o \in Threads |->
                              IF o = th
                              THEN [pc |-> "append",
                                    op |-> "create_assignment",
                                    body |-> body,
                                    member |-> data.members[
                                        member_index(data, body.member_id)],
                                    task |-> data.tasks[
                                        task_index(data, body.task_id)],
                                    raced |-> racing # {}]
                              ELSE IF o \in racing
                              THEN [threads[o] EXCEPT !.raced = TRUE]
                              ELSE threads[o]]
    /\ UNCHANGED <<data, disk, client, now, next_uuid, request, response,
                   sent, disk_faults, before, webhook_done, saved>>

\* the rest of create_assignment in thread th: the assignment is appended to
\* the dataset of this moment and saved, and 201 is returned; during is
\* history: the threads that have a filtered list in hand at this moment
CreateAssignmentAppend(th) ==
    /\ threads[th].pc = "append"
    /\ LET out == append_assignment(data, threads[th].body,
                                    threads[th].member, threads[th].task,
                                    now)
       IN /\ data' = out.data
          /\ \E how \in SaveOutcomes : save_data(out.data, how)
          /\ threads' =
                 [threads EXCEPT ![th] =
                      [pc |-> "done", op |-> "create_assignment",
                       body |-> threads[th].body,
                       response |-> out.response,
                       raced |-> threads[th].raced,
                       during |-> { o \in Threads :
                                        threads[o].pc = "replace" }]]
    /\ next_uuid' = [next_uuid EXCEPT !.assignment = @ + 1]
    /\ UNCHANGED <<client, now, request, response, sent, before,
                   webhook_done>>

\* the response of thread th has been delivered
ThreadReturn(th) ==
    /\ threads[th].pc = "done"
    /\ threads' = [threads EXCEPT ![th] = IdleThread]
    /\ UNCHANGED <<data, disk, client, now, next_uuid, request, response,
                   sent, disk_faults, before, webhook_done, saved>>

NextConcurrent ==
    \/ AddMember
    \/ Return
    \/ \E th \in Threads : CreateAssignmentCheck(th)
    \/ \E th \in Threads : CreateAssignmentAppend(th)
    \/ \E th \in Threads : ThreadReturn(th)

\* members are added one request at a time while create_assignment requests
\* are served in interleaving threads
SpecConcurrent == Init /\ [][NextConcurrent]_vars

\* delete_member in thread th, up to the pop: the member is looked up in the
\* dataset of this moment and removed from the members
DeleteMemberPop(th) ==
    /\ threads[th].pc = "idle"
    /\ \E member_id \in MemberIds(data) :
           LET i == member_index(data, member_id)
           IN IF i = 0
              THEN /\ threads' =
                          [threads EXCEPT ![th] =
                               [pc |-> "done", op |-> "delete_member",
                                id |-> member_id,
                                response |->
                                    delete_member(data, member_id).response]]
                   /\ data' = data
              ELSE /\ threads' =
                          [threads EXCEPT ![th] =
                               [pc |-> "filter", op |-> "delete_member",
                                id |-> member_id,
                                removed |-> data.members[i]]]
                   /\ data' = [data EXCEPT !.members = pop(@, i)]
    /\ UNCHANGED <<disk, client, now, next_uuid, request, response, sent,
                   disk_faults, before, webhook_done, saved>>

\* delete_task in thread th, up to the pop
DeleteTaskPop(th) ==
    /\ threads[th].pc = "idle"
    /\ \E task_id \in TaskIds(data) :
           LET i == task_index(data, task_id)
           IN IF i = 0
              THEN /\ threads' =
                          [threads EXCEPT ![th] =
                               [pc |-> "done", op |-> "delete_task",
                                id |-> task_id,
                                response |->
                                    delete_task(data, task_id).response]]
                   /\ data' = data
              ELSE /\ threads' =
                          [threads EXCEPT ![th] =
                               [pc |-> "filter", op |-> "delete_task",
                                id |-> task_id,
                                removed |-> data.tasks[i]]]
                   /\ data' = [data EXCEPT !.tasks = pop(@, i)]
    /\ UNCHANGED <<disk, client, now, next_uuid, request, response, sent,
                   disk_faults, before, webhook_done, saved>>

\* the list comprehension of a delete in thread th: the filtered list is
\* built from the assignments of this moment and is not yet stored
DeleteFilter(th) ==
    /\ threads[th].pc = "filter"
    /\ threads' =
           [threads EXCEPT ![th] =
                [pc |-> "replace", op |-> threads[th].op,
                 id |-> threads[th].id, removed |-> threads[th].removed,
                 filtered |->
                     IF threads[th].op = "delete_member"
                     THEN without_member(data.assignments, threads[th].id)
                     ELSE without_task(data.assignments, threads[th].id)]]
    /\ UNCHANGED <<data, disk, client, now, next_uuid, request, response,
                   sent, disk_faults, before, webhook_done, saved>>

\* mutant: the list is filtered again when it is stored
replace_assignments_refiltered(d, rec) ==
    [d EXCEPT !.assignments =
         IF rec.op = "delete_member" THEN without_member(@, rec.id)
         ELSE without_task(@, rec.id)]

\* data["assignments"] = <the filtered list>
replace_assignments(d, rec) == [d EXCEPT !.assignments = rec.filtered]

\* the rest of a delete in thread th: the filtered list replaces the
\* assignments, the dataset is saved and the removed record is returned;
\* the thread leaves the during sets, which are history
DeleteReplace(th) ==
    /\ threads[th].pc = "replace"
    /\ data' = replace_assignments(data, threads[th])
    /\ \E how \in SaveOutcomes : save_data(data', how)
    /\ threads' =
           [o \in Threads |->
               IF o = th
               THEN [pc |-> "done", op |-> threads[th].op,
                     id |-> threads[th].id,
                     response |-> [status |-> 200,
                                   removed |-> threads[th].removed]]
               ELSE IF /\ threads[o].pc = "done"
                       /\ threads[o].op = "create_assignment"
                       /\ threads[o].response.status = 201
               THEN [threads[o] EXCEPT !.during = @ \ {th}]
               ELSE threads[o]]
    /\ UNCHANGED <<client, now, next_uuid, request, response, sent, before,
                   webhook_done>>

\* json.load of a data file left by an earlier run in which two members
\* were added to the default dataset
loaded_data ==
    [default_data EXCEPT !.members =
         << [id |-> <<"member", 1>>, name |-> "Ana", phone |-> S_phone1],
            [id |-> <<"member", 2>>, name |-> "Ben", phone |-> S_phone2] >>]

\* the state after load_data has found that data file
StartupLoaded ==
    /\ data = loaded_data
    /\ disk = loaded_data
    /\ disk_faults = 0
    /\ now = 0
    /\ next_uuid = [member |-> 3, task |-> 3, assignment |-> 1]
    /\ request = Idle
    /\ response = NoResponse
    /\ sent = <<>>
    /\ before = [data |-> data, disk |-> disk]
    /\ webhook_done = {}
    /\ threads = [th \in Threads |-> IdleThread]
    /\ saved = "none"

InitLoaded == client = TRUE /\ StartupLoaded

NextInterleaved ==
    \/ \E th \in Threads : CreateAssignmentCheck(th)
    \/ \E th \in Threads : CreateAssignmentAppend(th)
    \/ \E th \in Threads : DeleteMemberPop(th)
    \/ \E th \in Threads : DeleteTaskPop(th)
    \/ \E th \in Threads : DeleteFilter(th)
    \/ \E th \in Threads : DeleteReplace(th)
    \/ \E th \in Threads : ThreadReturn(th)

\* create_assignment, delete_member and delete_task requests are served in
\* interleaving threads on a dataset that was loaded with two members
SpecInterleaved == InitLoaded /\ [][NextInterleaved]_vars

---------------------------------------------------------------------------
(* Properties *)

Assignments == Range(data.assignments)
AssignmentsBefore == Range(before.data.assignments)

\* C1: in every reachable state at most one assignment exists for any
\* (member_id, task_id) pair.
C1_UniquePair ==
    \A i, j \in 1..Len(data.assignments) :
        (/\ data.assignments[i].member_id = data.assignments[j].member_id
         /\ data.assignments[i].task_id = data.assignments[j].task_id)
        => i = j

\* a second assignment was just created for a member whose first assignment
\* is already completed
C1_Witness ==
    /\ request.op = "create_assignment"
    /\ response.status = 201
    /\ Len(data.assignments) = 2
    /\ data.assignments[1].member_id = data.assignments[2].member_id
    /\ data.assignments[1].completed

\* C2: create_assignment for a pair that already has an assignment, completed
\* or not, returns 409 and adds no assignment.
C2_DuplicateConflict ==
    (/\ request.op = "create_assignment"
     /\ {"member_id", "task_id"} \subseteq DOMAIN request.body
     /\ \E a \in AssignmentsBefore :
            /\ a.member_id = request.body.member_id
            /\ a.task_id = request.body.task_id)
    => /\ response.status = 409
       /\ data = before.data
       /\ disk = before.disk

\* the pair of a completed assignment was just requested again and refused
C2_Witness ==
    /\ request.op = "create_assignment"
    /\ response.status = 409
    /\ \E a \in AssignmentsBefore :
           /\ a.member_id = request.body.member_id
           /\ a.task_id = request.body.task_id
           /\ a.completed

\* C3: in every reachable state every assignment's member_id is the id of a
\* stored member and its task_id is the id of a stored task.
C3_ReferentialIntegrity ==
    \A a \in Assignments :
        /\ \E m \in Range(data.members) : m.id = a.member_id
        /\ \E k \in Range(data.tasks) : k.id = a.task_id

\* a task with an assignment was just deleted while an assignment of another
\* task stays
C3_Witness ==
    /\ request.op = "delete_task"
    /\ response.status = 200
    /\ Len(before.data.assignments) = 2
    /\ Len(data.assignments) = 1

\* C4: delete_member of a stored member removes exactly that member and
\* exactly the assignments with its member_id, and leaves the other members,
\* the tasks and the other assignments as they were, in order; delete_task
\* likewise for a task and the assignments with its task_id.
C4_DeleteFrame ==
    /\ (/\ request.op = "delete_member"
        /\ \E m \in Range(before.data.members) : m.id = request.member_id)
       => /\ response.status = 200
          /\ response.removed.id = request.member_id
          /\ Len(data.members) = Len(before.data.members) - 1
          /\ data.members =
                 SelectSeq(before.data.members,
                           LAMBDA m : m.id # request.member_id)
          /\ data.tasks = before.data.tasks
          /\ data.assignments =
                 SelectSeq(before.data.assignments,
                           LAMBDA a : a.member_id # request.member_id)
    /\ (/\ request.op = "delete_task"
        /\ \E k \in Range(before.data.tasks) : k.id = request.task_id)
       => /\ response.status = 200
          /\ response.removed.id = request.task_id
          /\ Len(data.tasks) = Len(before.data.tasks) - 1
          /\ data.tasks =
                 SelectSeq(before.data.tasks,
                           LAMBDA k : k.id # request.task_id)
          /\ data.members = before.data.members
          /\ data.assignments =
                 SelectSeq(before.data.assignments,
                           LAMBDA a : a.task_id # request.task_id)

\* one of two members was just deleted: its assignment is gone, the other
\* member's assignment stays
C4_Witness ==
    /\ request.op = "delete_member"
    /\ response.status = 200
    /\ Len(before.data.members) = 2
    /\ Len(before.data.assignments) = 2
    /\ Len(data.assignments) = 1

\* C5: in every reachable state an assignment is not completed if and only
\* if its completion_date is None.
C5_CompletionDate ==
    \A a \in Assignments : (a.completed = FALSE) <=> (a.completion_date = NoneVal)

\* an assignment was just completed while another one is still open
C5_Witness ==
    /\ request.op = "complete_assignment"
    /\ response.status = 200
    /\ \E a \in Assignments : a.completed
    /\ \E a \in Assignments : ~a.completed

\* C6: an assignment that is completed stays completed, with a completion
\* date, through every operation that keeps it (stated step by step: data is
\* the dataset after the request being served, before.data the one before
\* it); complete_assignment on an assignment that is already completed
\* returns success and stamps completion_date with the time of the call.
C6_CompletionMonotonic ==
    /\ \A a \in AssignmentsBefore : \A b \in Assignments :
           (a.completed /\ b.id = a.id)
           => (b.completed /\ b.completion_date # NoneVal)
    /\ (/\ request.op = "complete_assignment"
        /\ \E a \in AssignmentsBefore :
               a.id = request.assignment_id /\ a.completed)
       => /\ response.status = 200
          /\ response.assignment.completion_date = timestamp(now)
          /\ \A b \in Assignments :
                 b.id = request.assignment_id
                 => b.completed /\ b.completion_date = timestamp(now)

\* a completed assignment was just completed again, at a later time, and
\* its completion date moved
C6_Witness ==
    /\ request.op = "complete_assignment"
    /\ response.status = 200
    /\ \E a \in AssignmentsBefore : \E b \in Assignments :
           /\ a.id = request.assignment_id
           /\ b.id = a.id
           /\ a.completed
           /\ b.completion_date # a.completion_date

\* C7: add_member with a name and a phone that does not start with '+'
\* returns 400 and stores nothing; with a name and a phone that starts with
\* '+' it returns 201, and the returned member, whose id is the id of no
\* member stored before, is appended to the members.
C7_PhoneValidation ==
    (/\ request.op = "add_member"
     /\ {"name", "phone"} \subseteq DOMAIN request.body)
    => IF Len(request.body.phone) > 0 /\ request.body.phone[1] = "+"
       THEN /\ response.status = 201
            /\ \A m \in Range(before.data.members) :
                   m.id # response.member.id
            /\ response.member.name = request.body.name
            /\ response.member.phone = request.body.phone
            /\ data.members = Append(before.data.members, response.member)
       ELSE /\ response.status = 400
            /\ data = before.data
            /\ disk = before.disk

\* a second member was just added after a first one
C7_Witness ==
    /\ request.op = "add_member"
    /\ response.status = 201
    /\ Len(before.data.members) = 1
    /\ Len(data.members) = 2

\* the sender of the webhook request being served is the phone of a member
Registered ==
    \E m \in Range(before.data.members) : m.phone = bare_sender(request.From)

\* the member that sender is resolved to: the first one with that phone
Sender ==
    before.data.members[
        SetMin({ i \in 1..Len(before.data.members) :
                     before.data.members[i].phone = bare_sender(request.From) })]

\* the command of the webhook request being served
Command == lower(strip(request.Body))

\* C8: a webhook request whose sender, without the 'whatsapp:' prefix, is
\* the phone of no member gets the 'not registered' reply whatever its body
\* is, and leaves the dataset and the persisted file as they were.
C8_UnregisteredSender ==
    (request.op = "webhook" /\ ~Registered)
    => /\ response.status = 200
       /\ response.message = [kind |-> "not_registered"]
       /\ data = before.data
       /\ disk = before.disk

\* an unknown number just sent 'done kitchen cleaning' while a member has an
\* open assignment of that task
C8_Witness ==
    /\ request.op = "webhook"
    /\ ~Registered
    /\ startswith(Command, S_done_sp)
    /\ response.message.kind = "not_registered"
    /\ \E a \in Assignments : \E k \in Range(data.tasks) :
           /\ ~a.completed
           /\ k.id = a.task_id
           /\ lower(k.name) = strip(drop(Command, 5))

\* the task name requested by a 'done' command
DoneName == strip(drop(Command, 5))

\* the positions of the assignments that a 'done' command is about: those of
\* the sender, not completed, whose task is named DoneName in any letter case
DoneMatches ==
    { i \in 1..Len(before.data.assignments) :
          /\ before.data.assignments[i].member_id = Sender.id
          /\ ~before.data.assignments[i].completed
          /\ \E k \in Range(before.data.tasks) :
                 /\ k.id = before.data.assignments[i].task_id
                 /\ lower(k.name) = DoneName }

\* C9: a webhook 'done <name>' from a registered sender completes the first
\* assignment in stored order that is the sender's, is not completed and
\* whose task name is <name> in any letter case, leaves every other
\* assignment, every member and every task as it was, and replies with the
\* success message; when there is no such assignment it changes nothing and
\* replies with the failure message that names <name>.
C9_DoneCompletesFirst ==
    (/\ request.op = "webhook"
     /\ Registered
     /\ startswith(Command, S_done_sp))
    => IF DoneMatches # {}
       THEN /\ response.message.kind = "done_ok"
            /\ response.message.task_name = DoneName
            /\ data.members = before.data.members
            /\ data.tasks = before.data.tasks
            /\ Len(data.assignments) = Len(before.data.assignments)
            /\ \A j \in 1..Len(data.assignments) :
                   data.assignments[j] =
                       IF j = SetMin(DoneMatches)
                       THEN [before.data.assignments[j] EXCEPT
                                 !.completed = TRUE,
                                 !.completion_date = timestamp(now)]
                       ELSE before.data.assignments[j]
       ELSE /\ response.message.kind = "done_not_found"
            /\ response.message.task_name = DoneName
            /\ data = before.data
            /\ disk = before.disk

\* a 'done' command just completed the first of two matching assignments of
\* the sender; the later one is still open
C9_Witness ==
    /\ request.op = "webhook"
    /\ Registered
    /\ response.message.kind = "done_ok"
    /\ Cardinality(DoneMatches) = 2
    /\ \E j \in DoneMatches : ~data.assignments[j].completed

\* the sender's assignments that no 'done' command has completed and that
\* are not completed otherwise, in stored order
StillOpen ==
    SelectSeq(before.data.assignments,
              LAMBDA a : /\ a.member_id = Sender.id
                         /\ a.id \notin webhook_done
                         /\ ~a.completed)

\* C10: an assignment completed by a 'done' command stays completed, and a
\* later 'tasks' reply to its member has no line for it: the reply lists
\* exactly the member's assignments that are still open, and is the 'no
\* active tasks' message when there is none.
C10_DoneThenTasks ==
    /\ \A a \in Assignments : a.id \in webhook_done => a.completed
    /\ (/\ request.op = "webhook"
        /\ Registered
        /\ Command = S_tasks)
       => IF StillOpen = <<>>
          THEN response.message =
                   [kind |-> "no_active_tasks", name |-> Sender.name]
          ELSE /\ response.message.kind = "task_list"
               /\ Len(response.message.lines) = Len(StillOpen)
               /\ \A n \in 1..Len(StillOpen) :
                      /\ response.message.lines[n].idx = n
                      /\ response.message.lines[n].due_date =
                             StillOpen[n].due_date
                      /\ \E k \in Range(before.data.tasks) :
                             /\ k.id = StillOpen[n].task_id
                             /\ k.name = response.message.lines[n].name

\* a 'tasks' reply just listed the one open assignment of a member whose
\* other assignment was completed by a 'done' command
C10_Witness ==
    /\ request.op = "webhook"
    /\ Registered
    /\ Command = S_tasks
    /\ response.message.kind = "task_list"
    /\ Len(response.message.lines) = 1
    /\ \E a \in AssignmentsBefore :
           a.member_id = Sender.id /\ a.id \in webhook_done

\* the sender's assignments that are not completed, in stored order
SenderActive ==
    SelectSeq(before.data.assignments,
              LAMBDA a : a.member_id = Sender.id /\ ~a.completed)

\* C11: the 'tasks' command of a registered sender, in any letter case and
\* with surrounding whitespace, is answered with the 'no active tasks'
\* message when the sender has no incomplete assignment, and otherwise with
\* one line per incomplete assignment of the sender, in stored order,
\* numbered from 1, carrying the task's name and the assignment's due date;
\* the dataset and the persisted file are unchanged.
C11_TasksListing ==
    (/\ request.op = "webhook"
     /\ Registered
     /\ Command = S_tasks)
    => /\ data = before.data
       /\ disk = before.disk
       /\ response.status = 200
       /\ IF SenderActive = <<>>
          THEN response.message.kind = "no_active_tasks"
          ELSE /\ response.message.kind = "task_list"
               /\ response.message.name = Sender.name
               /\ DOMAIN response.message.lines = 1..Len(SenderActive)
               /\ \A n \in 1..Len(SenderActive) :
                      LET line == response.message.lines[n]
                          a == SenderActive[n]
                      IN /\ line.idx = n
                         /\ line.due_date = a.due_date
                         /\ \A k \in Range(before.data.tasks) :
                                k.id = a.task_id => line.name = k.name

\* ' Tasks' with a newline was just answered with a one-line list while
\* another member has an incomplete assignment too
C11_Witness ==
    /\ request.op = "webhook"
    /\ Registered
    /\ request.Body # S_tasks
    /\ response.message.kind = "task_list"
    /\ Len(response.message.lines) = 1
    /\ \E a \in AssignmentsBefore : a.member_id # Sender.id /\ ~a.completed

\* the day of the due-check run being served
Today == date_str(now)

\* the positions of the assignments that a due-check run has to remind of:
\* not completed, due today or tomorrow, member and task stored
DueSoon ==
    SelectSeq([i \in 1..Len(before.data.assignments) |-> i],
              LAMBDA i :
                  LET a == before.data.assignments[i]
                  IN /\ ~a.completed
                     /\ a.due_date \in {Today, Today + 1}
                     /\ \E m \in Range(before.data.members) :
                            m.id = a.member_id
                     /\ \E k \in Range(before.data.tasks) : k.id = a.task_id)

\* C12: a run of the due-check with the client configured makes one send
\* attempt for each incomplete assignment due today or tomorrow whose
\* member and task are stored, addressed to its member and worded 'due
\* today' or 'due tomorrow' accordingly, and no other attempt, whichever of
\* the attempts fail; the dataset is unchanged.
C12_DueReminders ==
    (request.op = "check_due_tasks" /\ client)
    => /\ data = before.data
       /\ DOMAIN sent = 1..Len(DueSoon)
       /\ \A n \in 1..Len(DueSoon) :
              LET a == before.data.assignments[DueSoon[n]]
              IN /\ sent[n].body.kind = "due_reminder"
                 /\ sent[n].body.urgency =
                        IF a.due_date = Today THEN "due today"
                        ELSE "due tomorrow"
                 /\ \E m \in Range(before.data.members) :
                        /\ m.id = a.member_id
                        /\ sent[n].to = S_whatsapp \o m.phone
                        /\ sent[n].body.name = m.name
                 /\ \E k \in Range(before.data.tasks) :
                        /\ k.id = a.task_id
                        /\ sent[n].body.task = k.name

\* a run just attempted two reminders of tasks due today, the first of which
\* failed
C12_Witness ==
    /\ request.op = "check_due_tasks"
    /\ Len(sent) = 2
    /\ ~sent[1].ok
    /\ sent[2].ok
    /\ sent[2].body.urgency = "due today"

\* C13: in a server started without the Twilio credentials no send is ever
\* attempted; a due-check run is skipped and changes nothing, notify_all and
\* notify_member return 500 and change nothing; add_member, the deletes,
\* create_assignment, complete_assignment and the webhook commands answer
\* as they do with the client configured.
C13_NoClient ==
    ~client
    => /\ sent = <<>>
       /\ request.op = "check_due_tasks"
          => /\ response = [job |-> "check_due_tasks", skipped |-> TRUE]
             /\ data = before.data
             /\ disk = before.disk
       /\ request.op \in {"notify_all", "notify_member"}
          => /\ response.status = 500
             /\ data = before.data
             /\ disk = before.disk
       /\ C2_DuplicateConflict
       /\ C4_DeleteFrame
       /\ C6_CompletionMonotonic
       /\ C7_PhoneValidation
       /\ C8_UnregisteredSender
       /\ C9_DoneCompletesFirst
       /\ C11_TasksListing

\* without the client a due-check run was just skipped although an
\* assignment is due
C13_Witness ==
    /\ ~client
    /\ request.op = "check_due_tasks"
    /\ response.skipped
    /\ DueSoon # <<>>

\* the positions of the assignments that notify_all has to remind of: not
\* completed, member and task stored
ToRemind ==
    SelectSeq([i \in 1..Len(before.data.assignments) |-> i],
              LAMBDA i :
                  LET a == before.data.assignments[i]
                  IN /\ ~a.completed
                     /\ \E m \in Range(before.data.members) :
                            m.id = a.member_id
                     /\ \E k \in Range(before.data.tasks) : k.id = a.task_id)

\* the sends of the request being served that did not raise, in order
Delivered == SelectSeq(sent, LAMBDA x : x.ok)

\* C14: notify_all with the client configured makes one send attempt for
\* each incomplete assignment whose member and task are stored, in stored
\* order and addressed to its member, also after an attempt that failed, and
\* no other attempt; it returns success with a report that has one entry,
\* in the same order, for each attempt that succeeded and none for the
\* failed ones; the dataset is unchanged.
C14_NotifyAll ==
    (request.op = "notify_all" /\ client)
    => /\ data = before.data
       /\ disk = before.disk
       /\ DOMAIN sent = 1..Len(ToRemind)
       /\ \A n \in 1..Len(ToRemind) :
              LET a == before.data.assignments[ToRemind[n]]
              IN /\ sent[n].body.kind = "reminder"
                 /\ sent[n].body.due_date = a.due_date
                 /\ \E m \in Range(before.data.members) :
                        /\ m.id = a.member_id
                        /\ sent[n].to = S_whatsapp \o m.phone
                        /\ sent[n].body.name = m.name
                 /\ \E k \in Range(before.data.tasks) :
                        /\ k.id = a.task_id
                        /\ sent[n].body.task = k.name
       /\ response.status = 200
       /\ DOMAIN response.notifications_sent = 1..Len(Delivered)
       /\ \A n \in 1..Len(Delivered) :
              /\ response.notifications_sent[n].member = Delivered[n].body.name
              /\ response.notifications_sent[n].task = Delivered[n].body.task

\* notify_all just made two attempts, the first of which failed, and
\* reported the second one only
C14_Witness ==
    /\ request.op = "notify_all"
    /\ Len(sent) = 2
    /\ ~sent[1].ok
    /\ Len(response.notifications_sent) = 1

\* the member that the notify_member request being served names is stored
Notified ==
    \E m \in Range(before.data.members) : m.id = request.member_id

\* that member's assignments that are not completed, in stored order
NotifiedActive ==
    SelectSeq(before.data.assignments,
              LAMBDA a : a.member_id = request.member_id /\ ~a.completed)

\* C15: notify_member for a stored member, with the client configured,
\* makes no send and returns a success message when the member has no
\* incomplete assignment; otherwise it makes exactly one send, to the
\* member, whose message has one numbered line for each incomplete
\* assignment of the member, and when that send is delivered it returns
\* success with the number of those assignments (a send that raises gives
\* 500); the dataset is unchanged.
C15_NotifyMember ==
    (request.op = "notify_member" /\ client /\ Notified)
    => /\ data = before.data
       /\ disk = before.disk
       /\ IF NotifiedActive = <<>>
          THEN /\ sent = <<>>
               /\ response.status = 200
               /\ "message" \in DOMAIN response
          ELSE /\ Len(sent) = 1
               /\ \E m \in Range(before.data.members) :
                      /\ m.id = request.member_id
                      /\ sent[1].to = S_whatsapp \o m.phone
                      /\ sent[1].body.name = m.name
               /\ sent[1].body.kind = "task_summary"
               /\ DOMAIN sent[1].body.lines = 1..Len(NotifiedActive)
               /\ \A n \in 1..Len(NotifiedActive) :
                      LET line == sent[1].body.lines[n]
                          a == NotifiedActive[n]
                      IN /\ line.idx = n
                         /\ line.due_date = a.due_date
                         /\ \E k \in Range(before.data.tasks) :
                                /\ k.id = a.task_id
                                /\ line.name = k.name
                                /\ line.description = k.description
               /\ IF sent[1].ok
                  THEN /\ response.status = 200
                       /\ response.tasks_count = Len(NotifiedActive)
                  ELSE response.status = 500

\* notify_member just sent one message with the two incomplete assignments
\* of the member and reported two tasks
C15_Witness ==
    /\ request.op = "notify_member"
    /\ Len(sent) = 1
    /\ sent[1].ok
    /\ Len(sent[1].body.lines) = 2
    /\ response.tasks_count = 2

\* C16 as stated: notify_member with an id that is the id of no member
\* returns 404, sends nothing and changes nothing.
C16_AsStated ==
    (request.op = "notify_member" /\ ~Notified)
    => /\ response.status = 404
       /\ sent = <<>>
       /\ data = before.data
       /\ disk = before.disk

\* C16, amended: with the client configured, notify_member with an id that
\* is the id of no member returns 404, sends nothing and changes nothing.
C16_NotifyUnknownMember ==
    (request.op = "notify_member" /\ client /\ ~Notified)
    => /\ response.status = 404
       /\ response.error = "Member not found"
       /\ sent = <<>>
       /\ data = before.data
       /\ disk = before.disk

\* with the client configured, an unknown id was just refused while a
\* member with an incomplete assignment is stored
C16_Witness ==
    /\ request.op = "notify_member"
    /\ client
    /\ ~Notified
    /\ response.status = 404
    /\ \E a \in AssignmentsBefore : ~a.completed

\* the threads whose create_assignment passed its checks while another
\* thread had passed the checks for the same pair and not yet appended, and
\* that have returned
RacedDone == { th \in Threads : threads[th].pc = "done" /\ threads[th].raced }

\* C17: when the checks of two create_assignment requests for one
\* (member_id, task_id) pair are both made before either request appends,
\* each of the two returns 201 with an assignment of its own, and both
\* assignments are in the dataset.
C17_DuplicateRace ==
    /\ \A th \in RacedDone :
           /\ threads[th].response.status = 201
           /\ threads[th].response.assignment \in Assignments
    /\ \A th, o \in RacedDone :
           (/\ th # o
            /\ threads[th].body.member_id = threads[o].body.member_id
            /\ threads[th].body.task_id = threads[o].body.task_id)
           => /\ threads[th].response.assignment.id #
                      threads[o].response.assignment.id
              /\ threads[th].response.assignment.member_id =
                      threads[o].response.assignment.member_id
              /\ threads[th].response.assignment.task_id =
                      threads[o].response.assignment.task_id

\* two threads have both returned 201 for one pair, and the dataset holds two
\* assignments of that pair
C17_Witness ==
    /\ \E th, o \in RacedDone :
           /\ th # o
           /\ threads[th].body.member_id = threads[o].body.member_id
           /\ threads[th].body.task_id = threads[o].body.task_id
           /\ threads[th].response.status = 201
           /\ threads[o].response.status = 201
    /\ \E i, j \in 1..Len(data.assignments) :
           /\ i # j
           /\ data.assignments[i].member_id = data.assignments[j].member_id
           /\ data.assignments[i].task_id = data.assignments[j].task_id

\* the save of the request being served raised
SaveFailed == saved \in {"not opened", "not written"}

\* the request being served reports success to its caller
ReportsSuccess ==
    IF request.op = "webhook"
    THEN response.status = 200 /\ response.message.kind = "done_ok"
    ELSE response.status \in {200, 201}

\* the dataset holds what the request being served has done to it
MutationKept ==
    /\ request.op \in {"add_member", "delete_member", "add_task",
                       "delete_task", "create_assignment",
                       "complete_assignment", "webhook"}
    /\ request.op = "add_member"
       => data = [before.data EXCEPT
                      !.members = Append(@, response.member)]
    /\ request.op = "add_task"
       => data = [before.data EXCEPT !.tasks = Append(@, response.task)]
    /\ request.op = "create_assignment"
       => data = [before.data EXCEPT
                      !.assignments = Append(@, response.assignment)]
    /\ request.op = "complete_assignment"
       => /\ response.assignment.completed
          /\ response.assignment.completion_date = timestamp(now)
          /\ response.assignment \in Assignments
    /\ C4_DeleteFrame
    /\ C9_DoneCompletesFirst

\* C18 as stated: when the save of a mutating operation fails, the mutation
\* stays in memory, the operation reports success, and the persisted file
\* keeps its previous content, so that it differs from the dataset in memory.
C18_AsStated ==
    SaveFailed
    => /\ MutationKept
       /\ ReportsSuccess
       /\ disk = before.disk
       /\ disk # data

\* C18, amended: when the save of a mutating operation fails, the mutation
\* stays in memory and the operation reports success; the persisted file
\* keeps its previous content when it could not be opened and is left
\* emptied when the write failed after the open, and nothing writes it again
\* before the operation returns; it differs from the dataset in memory
\* whenever it was emptied, or the two agreed before an operation that
\* changed the dataset.
C18_SaveFailure ==
    SaveFailed
    => /\ MutationKept
       /\ ReportsSuccess
       /\ disk = IF saved = "not opened" THEN before.disk ELSE Truncated
       /\ (\/ saved = "not written"
           \/ before.disk = before.data /\ data # before.data)
          => disk # data

\* the save of a webhook 'done' command could not open the file: the
\* assignment is completed in memory and not in the file
C18_Witness ==
    /\ request.op = "webhook"
    /\ saved = "not opened"
    /\ response.message.kind = "done_ok"
    /\ before.disk = before.data
    /\ disk # data

\* C19: from a startup without DATA_FILE and while no save fails, the file
\* holds the whole dataset, members, tasks and assignments, after startup
\* and after every request, and a request that has changed the dataset has
\* saved it.
C19_FileEqualsData ==
    /\ disk = data
    /\ data # before.data => saved = "saved"

\* a webhook 'done' command just completed an assignment, and the file
\* holds the completed assignment
C19_Witness ==
    /\ request.op = "webhook"
    /\ response.message.kind = "done_ok"
    /\ data # before.data
    /\ disk # before.disk
    /\ \E a \in Range(disk.assignments) : a.completed

\* C20: in every reachable state every stored member has a name that is not
\* empty and a phone that starts with '+'.
C20_MemberFields ==
    \A m \in Range(data.members) :
        /\ m.name # ""
        /\ Len(m.phone) > 0
        /\ m.phone[1] = "+"

\* the create_assignment threads that have returned 201
Created ==
    { c \in Threads : /\ threads[c].pc = "done"
                      /\ threads[c].op = "create_assignment"
                      /\ threads[c].response.status = 201 }

\* C21: with no lock, when create_assignment has appended its assignment
\* while a delete_member or delete_task held its filtered list, then at the
\* moment the delete stores that list the create still reports 201 and its
\* assignment is absent from the dataset.
C21_LostUpdate ==
    [][\A o \in Threads :
           threads[o].pc = "replace" /\ threads'[o].pc = "done" =>
               \A c \in Created :
                   o \in threads[c].during =>
                       /\ threads'[c].pc = "done"
                       /\ threads'[c].response.status = 201
                       /\ threads[c].response.assignment
                              \notin Range(data'.assignments)]_vars

\* a create_assignment has returned 201, a delete of another member has
\* returned 200, the member and the task of the assignment are still stored
\* and the assignment is in neither the dataset nor the file
C21_Witness ==
    \E c \in Created : \E o \in Threads \ {c} :
        /\ threads[o].pc = "done"
        /\ threads[o].op = "delete_member"
        /\ threads[o].response.status = 200
        /\ threads[o].id # threads[c].body.member_id
        /\ member_index(data, threads[c].body.member_id) # 0
        /\ task_index(data, threads[c].body.task_id) # 0
        /\ threads[c].response.assignment \notin Range(data.assignments)
        /\ threads[c].response.assignment \notin Range(disk.assignments)

\* the threads that are inside a delete of the record with this id, after
\* its pop and before its list is stored
Deleting(op, id) ==
    { o \in Threads : /\ threads[o].pc \in {"filter", "replace"}
                      /\ threads[o].op = op
                      /\ threads[o].id = id }

\* C22: with no lock, when a delete_member (or delete_task) has run
\* completely between the existence checks of a create_assignment and its
\* append, the create still appends and returns 201, and the dataset then
\* holds an assignment whose member_id (or task_id) matches no member (or
\* task).
C22_DanglingReference ==
    [][\A c \in Threads :
           threads[c].pc = "append" /\ threads'[c].pc = "done" =>
               LET body == threads[c].body
                   stored == { a \in Range(data'.assignments) :
                                  /\ a.member_id = body.member_id
                                  /\ a.task_id = body.task_id }
               IN /\ /\ member_index(data, body.member_id) = 0
                     /\ Deleting("delete_member", body.member_id) = {}
                     => /\ threads'[c].response.status = 201
                        /\ threads'[c].response.assignment \in stored
                        /\ member_index(data', body.member_id) = 0
                  /\ /\ task_index(data, body.task_id) = 0
                     /\ Deleting("delete_task", body.task_id) = {}
                     => /\ threads'[c].response.status = 201
                        /\ threads'[c].response.assignment \in stored
                        /\ task_index(data', body.task_id) = 0]_vars

\* a create_assignment has returned 201 and a delete_member of its member
\* has returned 200 without overlapping its append; the dataset and the file
\* hold the assignment and no member with its member_id
C22_Witness ==
    \E c \in Created : \E o \in Threads \ {c} :
        /\ threads[o].pc = "done"
        /\ threads[o].op = "delete_member"
        /\ threads[o].response.status = 200
        /\ threads[o].id = threads[c].body.member_id
        /\ threads[c].during = {}
        /\ threads[c].response.assignment \in Range(data.assignments)
        /\ threads[c].response.assignment \in Range(disk.assignments)
        /\ member_index(data, threads[c].response.assignment.member_id) = 0
        /\ member_index(disk, threads[c].response.assignment.member_id) = 0

\* the operations on members, tasks and assignments that can be refused
Refusable ==
    {"add_member", "add_task", "delete_member", "delete_task",
     "create_assignment", "complete_assignment"}

\* the request being served was refused with 400, 404 or 409
Refused ==
    /\ request.op \in Refusable
    /\ response.status \in {400, 404, 409}

\* C23: add_member, add_task, delete_member, delete_task, create_assignment
\* and complete_assignment, when they return 400, 404 or 409, leave the
\* members, the tasks, the assignments and the data file exactly as they
\* were before the call, also when the file differs from the dataset.
C23_RefusalChangesNothing ==
    Refused =>
        /\ data.members = before.data.members
        /\ data.tasks = before.data.tasks
        /\ data.assignments = before.data.assignments
        /\ disk = before.disk
        /\ saved = "none"

\* a create_assignment is refused with 409 while the file, after a failed
\* save, differs from the dataset that holds a member and an assignment
C23_Witness ==
    /\ request.op = "create_assignment"
    /\ response.status = 409
    /\ data.members # <<>>
    /\ data.assignments # <<>>
    /\ before.disk # before.data
    /\ disk = before.disk

\* the positions, before the request, of the sender's assignments for the
\* task that the 'done' command names, completed or not
DoneNamed ==
    { i \in 1..Len(before.data.assignments) :
          /\ before.data.assignments[i].member_id = Sender.id
          /\ \E k \in Range(before.data.tasks) :
                 /\ k.id = before.data.assignments[i].task_id
                 /\ lower(k.name) = DoneName }

\* the request being served is a 'done' command of a registered sender
\* whose assignments for the named task are all completed already
DoneOnCompleted ==
    /\ request.op = "webhook"
    /\ Registered
    /\ startswith(Command, S_done_sp)
    /\ DoneNamed # {}
    /\ \A i \in DoneNamed : before.data.assignments[i].completed

\* C24: a 'done <name>' command of a sender whose only assignment for the
\* named task is completed is answered with the failure message, saves
\* nothing and leaves the dataset, completion_date included, as it was; and
\* whenever a request leaves a completed assignment in the dataset with
\* another completion_date, the request is complete_assignment with the id
\* of that assignment.
C24_DoneSkipsCompleted ==
    /\ DoneOnCompleted =>
           /\ response.message.kind = "done_not_found"
           /\ saved = "none"
           /\ data = before.data
           /\ disk = before.disk
    /\ \A a \in Range(before.data.assignments) :
           \A b \in Range(data.assignments) :
               /\ a.completed
               /\ b.id = a.id
               /\ b.completion_date # a.completion_date
               => /\ request.op = "complete_assignment"
                  /\ request.assignment_id = a.id

\* a 'done' command names the task of the sender's only assignment, which
\* was completed at an earlier time of the clock, and is answered with the
\* failure message; the assignment keeps its completion_date
C24_Witness ==
    /\ DoneOnCompleted
    /\ Cardinality(DoneNamed) = 1
    /\ response.message.kind = "done_not_found"
    /\ \A i \in DoneNamed :
           /\ before.data.assignments[i].completion_date # timestamp(now)
           /\ data.assignments[i] = before.data.assignments[i]

====
